---- MODULE Spec2Model ----
(***************************************************************************)
(* MockaMint Studio: the simulated export workflow of export.js and the   *)
(* simulated generation / format-only export flows of app.js, as state    *)
(* machines.  One handler of the page script is one action.  The          *)
(* notifications a handler dispatches are recorded, in dispatch order, in *)
(* the variable emitted.                                                   *)
(***************************************************************************)
EXTENDS Integers, Sequences, FiniteSets, TLC

\* ------------------------------------------------------------------------
\* Bounds of the model
\* ------------------------------------------------------------------------
MaxInits == 2
MaxRuns == 2
MaxGens == 2
MaxProducts == 3
MaxPanelRuns == 1
MaxBundleOps == 4

\* ------------------------------------------------------------------------
\* Inputs
\* ------------------------------------------------------------------------
\* The fileFormat checkboxes of the options element, in document order.
fileFormatCheckboxes == <<"png", "pdf">>

\* Option objects handed to startexport by programmatic callers.
\* given names the fields the object carries; a field that is not given is undefined.
Requests ==
    { [given |-> {"products", "formats"}, products |-> <<"shirt", "mug">>, formats |-> <<"png", "pdf">>],
      [given |-> {"products", "formats"}, products |-> <<>>,               formats |-> <<"png">>],
      [given |-> {"products", "formats"}, products |-> <<"shirt">>,        formats |-> <<>>] }

\* The product cards the user clicks and the format checkboxes the user changes.
ClickedCards == {"cap"}
ChangedFormats == {"pdf"}

\* Values of Math.random(), in thousandths.
RandomDraws == {0, 999}

\* Prompts handed to startGeneration.
Prompts == {"Logo", "Cap"}

\* Milliseconds between two animation frames.
FrameGaps == {2000, 3990}

\* Milliseconds between the previous handler and a call of startGeneration.
Waits == {0, 1}

Null == [null |-> TRUE]

VARIABLES
    startEl,          \* the page has a [data-mm-export-start] element
    optionsEl,        \* the page has a [data-mm-export-options] element
    initialized,      \* _initialized of the initexport closure
    apis,             \* the startexport functions handed out by initexport, in call order
    checkedFormats,   \* values of the checked fileFormat checkboxes
    selectedProducts, \* the selectedProducts Set, in insertion order
    runs,             \* one record per executed startexport body
    indicator,        \* the classes of the options container and aria-busy of the progress container
    bundleListEl,     \* the page has a [data-mm-bundle-list] element
    bundleList,       \* the items of the bundle list
    clock,            \* Date.now(), in ms since the page was loaded
    statusContainer,  \* the page has a generation status container
    timelineEl,       \* the page has a timeline element
    generationQueue,  \* state.generationQueue
    cards,            \* the generation status cards, in document order
    scheduled,        \* requestAnimationFrame callbacks waiting for the next frame
    running,          \* callbacks of the frame in progress that have not run yet
    bundleItems,      \* state.bundleItems
    bundleSummary,    \* the item count and the total the bundle summary shows
    lineObjs,         \* for each line of state.bundleItems, the object that holds it
    received,         \* the items arrays an observer got with bundle-changed, as it reads them now
    chipSelected,     \* for each tag chip, whether it has the class is-selected or selected
    activeTags,       \* state.activeTags, in insertion order
    filterSelected,   \* for each filter button, whether it has the class is-selected
    activeFilters,    \* state.activeFilters, in insertion order
    swatchSelected,   \* for each variant swatch, whether it has the class is-selected
    selectedVariants, \* state.selectedVariants, the entries in insertion order
    prevClick,        \* the latest click on a chip, button or swatch and the selection before it
    anchors,          \* the required selectors that match an element of the page
    bound,            \* the features whose triggers initApp has bound
    phase,            \* where the script of app.js is: "script", "deferred" or "ready"
    readyState,       \* document.readyState
    console,          \* the lines written to the console
    modals,           \* the export modals appended to the body
    namespace,        \* window.MockaMint: whether it is defined and the properties it has
    loaded,           \* the scripts that have run
    partDeferred,     \* init of part_000 waits for DOMContentLoaded
    timeline,         \* entries of the timeline element, first child first
    toasts,           \* toasts shown so far, oldest first
    emitted           \* what the latest handler dispatched, logged and returned, in order

panelVars == <<indicator, bundleListEl, bundleList>>

exportVars == <<startEl, optionsEl, initialized, apis, checkedFormats, selectedProducts, runs,
                panelVars>>

appVars == <<clock, statusContainer, timelineEl, generationQueue, cards, scheduled, running>>

bundleVars == <<bundleItems, bundleSummary, lineObjs, received>>

selectVars == <<chipSelected, activeTags, filterSelected, activeFilters, swatchSelected,
                selectedVariants, prevClick>>

scriptVars == <<namespace, loaded, partDeferred>>

pageVars == <<anchors, bound, phase, readyState, console, modals, scriptVars>>

uiVars == <<selectVars, pageVars>>

vars == <<exportVars, appVars, bundleVars, uiVars, timeline, toasts, emitted>>

\* ------------------------------------------------------------------------
\* export.js
\* ------------------------------------------------------------------------
Min(a, b) == IF a < b THEN a ELSE b

\* Math.ceil(Math.random() * 15) for a draw of n thousandths
RandomStep(n) == (n * 15 + 999) \div 1000

\* Mutants of NextPercent: the clamp left out; the increment left out.
NextPercentUnclamped(percent, step) == percent + step
NextPercentStalled(percent, step) == percent

\* percent = Math.min(100, percent + step)
NextPercent(percent, step) == Min(100, percent + step)

\* getSelectedFormats: the checked boxes in document order
RECURSIVE SelectChecked(_, _)
SelectChecked(boxes, checked) ==
    IF boxes = <<>> THEN <<>>
    ELSE (IF Head(boxes) \in checked THEN <<Head(boxes)>> ELSE <<>>)
         \o SelectChecked(Tail(boxes), checked)

getSelectedFormats(checked) == SelectChecked(fileFormatCheckboxes, checked)

\* const formats = options.formats && options.formats.length ? options.formats : getSelectedFormats()
FormatsOf(options, checked) ==
    IF "formats" \in options.given /\ Len(options.formats) # 0
    THEN options.formats
    ELSE getSelectedFormats(checked)

\* const products = options.products || Array.from(selectedProducts)   (an array is truthy)
ProductsOf(options, selected) ==
    IF "products" \in options.given THEN options.products ELSE selected

\* Mutant of Filename: the two parts swapped.
FilenameSwapped(p, f) == f \o "." \o p

\* `${p}.${f}`
Filename(p, f) == p \o "." \o f

\* formats.forEach(f => files.push({product: p, format: f, filename}))
RECURSIVE PushFormats(_, _, _)
PushFormats(files, p, formats) ==
    IF formats = <<>> THEN files
    ELSE PushFormats(Append(files, [product |-> p, format |-> Head(formats),
                                    filename |-> Filename(p, Head(formats))]),
                     p, Tail(formats))

\* products.forEach(p => formats.forEach(...))
RECURSIVE PlanFiles(_, _, _)
PlanFiles(files, products, formats) ==
    IF products = <<>> THEN files
    ELSE PlanFiles(PushFormats(files, Head(products), formats), Tail(products), formats)

\* Mutant of CompleteDetail: the detail is built from the run started last, as
\* if the runs shared one request.
CompleteDetailShared(run) ==
    LET last == runs[Len(runs)]
    IN [files |-> last.files,
        summary |-> [productCount |-> Len(last.products),
                     fileCount |-> Len(last.files),
                     formats |-> last.formats,
                     options |-> last.options]]

\* completeDetail of the completing tick
CompleteDetail(run) ==
    [files |-> run.files,
     summary |-> [productCount |-> Len(run.products),
                  fileCount |-> Len(run.files),
                  formats |-> run.formats,
                  options |-> run.options]]

\* Mutant of ResolveWith: resolve() called without the detail.
ResolveWithNothing(completeDetail) == Null

\* resolve(completeDetail)
ResolveWith(completeDetail) == completeDetail

\* Mutant of ClearInterval: the timer is left running.
KeepInterval(active) == active

\* clearInterval(interval) in the tick that reaches 100
ClearInterval(active) == FALSE

Event(type, run, detail) == [type |-> type, run |-> run, detail |-> detail]

\* JavaScript values of the bundle arithmetic: a number, NaN or undefined.
Num(n) == [t |-> "number", n |-> n]
NaN == [t |-> "NaN", n |-> 0]
Undefined == [t |-> "undefined", n |-> 0]

\* The bundle summary of the page as served: an empty bundle.
EmptySummary == [itemCount |-> Num(0), totalPrice |-> Num(0)]

\* No chip, button or swatch is selected and nothing has been clicked.
NoClick == [kind |-> "none", key |-> "", before |-> {}]

\* The selectors integrityChecks looks for.
requiredSelectors ==
    {"[data-mm-nav]", "[data-mm-toasts]", "[data-mm-tag-chip]", "[data-mm-filter]",
     "[data-mm-variant-swatch]", "[data-mm-add-to-bundle]", "[data-mm-export]",
     "[data-mm-generation-status-container]", "[data-mm-timeline]"}

\* The features initApp binds triggers for.
Features == {"tags", "filters", "variants", "bundle", "generation", "export"}

\* The properties of publicApi.
publicApi ==
    {"state", "addToBundle", "removeFromBundle", "startGeneration", "startExport",
     "downloadExport", "showToast", "addTimelineEntry", "initApp"}

\* window.MockaMint before any script has run.
NoNamespace == [defined |-> FALSE, props |-> {}]

\* A page with every anchor, after app.js has run alone.
PageReady ==
    /\ namespace = [defined |-> TRUE, props |-> publicApi]
    /\ loaded = {"app"}
    /\ partDeferred = FALSE
    /\ anchors = requiredSelectors
    /\ bound = Features
    /\ phase = "ready"
    /\ readyState = "complete"
    /\ console = <<[level |-> "log", text |-> "MockaMint Studio initialized"]>>
    /\ modals = <<>>

\* The export panel before any run: no class on the container, no aria-busy,
\* nothing in the bundle list.
PanelIdle ==
    /\ indicator = [loading |-> FALSE, complete |-> FALSE, ariaBusy |-> ""]
    /\ bundleList = <<>>

\* obj[field] of JavaScript, for a property that holds a number: undefined
\* when the object has no such property.
Get(obj, field) == IF field \in DOMAIN obj THEN Num(obj[field]) ELSE Undefined

\* The bundle item with the text `Bundle (${count} files)`
BundleItemText(count) == [className |-> "bundle-item", count |-> count]

SelectIdle ==
    /\ chipSelected = <<>>
    /\ activeTags = <<>>
    /\ filterSelected = <<>>
    /\ activeFilters = <<>>
    /\ swatchSelected = <<>>
    /\ selectedVariants = <<>>
    /\ prevClick = NoClick

ExportInit ==
    /\ startEl \in BOOLEAN
    /\ optionsEl \in BOOLEAN
    /\ initialized = FALSE
    /\ apis = <<>>
    /\ checkedFormats \in {{}, {"png", "pdf"}}
    /\ selectedProducts = <<"shirt", "mug", "cap">>
    /\ runs = <<>>
    /\ PanelIdle
    /\ bundleListEl \in BOOLEAN
    /\ clock = 0
    /\ statusContainer = TRUE
    /\ timelineEl = TRUE
    /\ generationQueue = <<>>
    /\ cards = <<>>
    /\ scheduled = <<>>
    /\ running = <<>>
    /\ bundleItems = <<>>
    /\ bundleSummary = EmptySummary
    /\ lineObjs = <<>>
    /\ received = <<>>
    /\ SelectIdle
    /\ PageReady
    /\ timeline = <<>>
    /\ toasts = <<>>
    /\ emitted = <<>>

\* initexport(root = document)
initexport ==
    /\ Len(apis) < MaxInits
    /\ IF initialized
       THEN \* line 11: return { startexport } before any binding of this activation is set
            /\ apis' = Append(apis, "stale")
            /\ UNCHANGED initialized
       ELSE IF ~startEl \/ ~optionsEl
       THEN /\ initialized' = TRUE
            /\ apis' = Append(apis, "noop")
       ELSE /\ initialized' = TRUE
            /\ apis' = Append(apis, "live")
    /\ emitted' = <<>>
    /\ UNCHANGED <<startEl, optionsEl, checkedFormats, selectedProducts, runs, panelVars,
                   appVars, bundleVars, uiVars, timeline, toasts>>

\* noopStart(opts)
noopStart(h) ==
    /\ apis[h] = "noop"
    /\ emitted' = <<Event("console.warn", 0, Null),
                    Event("return", 0, [state |-> "resolved", value |-> Null])>>
    /\ UNCHANGED <<exportVars, appVars,
                   bundleVars, uiVars, timeline, toasts>>

\* startexport of an activation that returned at line 12: startEl is read
\* before its declaration ran, the executor throws and the promise rejects.
staleStart(h) ==
    /\ apis[h] = "stale"
    /\ emitted' = <<Event("return", 0, [state |-> "rejected", value |-> Null])>>
    /\ UNCHANGED <<exportVars, appVars,
                   bundleVars, uiVars, timeline, toasts>>

\* Body of startexport(options) of the initialised activation
StartRun(options) ==
    /\ Len(runs) < MaxRuns
    /\ LET products == ProductsOf(options, selectedProducts)
           formats == FormatsOf(options, checkedFormats)
           run == [options |-> options,
                   percent |-> 0,
                   interval |-> TRUE,
                   products |-> products,
                   formats |-> formats,
                   files |-> PlanFiles(<<>>, products, formats),
                   checkedAtStart |-> checkedFormats,
                   planned |-> [products |-> products, formats |-> formats],
                   lastPercent |-> -1,
                   completes |-> 0,
                   completeDetail |-> Null,
                   resolveCalls |-> 0,
                   promise |-> [state |-> "pending", value |-> Null]]
       IN /\ runs' = Append(runs, run)
          /\ indicator' = [loading |-> TRUE, complete |-> FALSE, ariaBusy |-> "true"]
          /\ emitted' = <<Event("export-start", Len(runs) + 1, options),
                          Event("return", Len(runs) + 1, [state |-> "pending", value |-> Null])>>
    /\ UNCHANGED <<startEl, optionsEl, initialized, apis, checkedFormats, selectedProducts,
                   bundleListEl, bundleList, appVars,
                   bundleVars, uiVars, timeline, toasts>>

startexport(h, options) ==
    /\ apis[h] = "live"
    /\ StartRun(options)

\* One firing of the setInterval callback of run r
Tick(r, n) ==
    /\ r \in 1..Len(runs)
    /\ runs[r].interval
    /\ LET run == runs[r]
           percent == NextPercent(run.percent, RandomStep(n))
           progress == Event("export-progress", r, percent)
           ticked == [run EXCEPT !.percent = percent, !.lastPercent = percent]
       IN IF percent >= 100
          THEN LET completeDetail == CompleteDetail(ticked)
                   value == ResolveWith(completeDetail)
               IN /\ runs' = [runs EXCEPT ![r] =
                        [ticked EXCEPT
                           !.interval = ClearInterval(run.interval),
                           !.completes = run.completes + 1,
                           !.completeDetail = completeDetail,
                           !.resolveCalls = run.resolveCalls + 1,
                           !.promise = IF run.promise.state = "pending"
                                       THEN [state |-> "resolved", value |-> value]
                                       ELSE run.promise]]
                  /\ indicator' = [loading |-> FALSE, complete |-> TRUE, ariaBusy |-> "false"]
                  /\ bundleList' = IF bundleListEl
                                   THEN <<BundleItemText(Get(completeDetail, "fileCount"))>>
                                   ELSE bundleList
                  /\ emitted' = <<progress,
                                  Event("export-complete", r, completeDetail),
                                  Event("promise-resolve", r, value)>>
          ELSE /\ runs' = [runs EXCEPT ![r] = ticked]
               /\ emitted' = <<progress>>
               /\ UNCHANGED <<indicator, bundleList>>
    /\ UNCHANGED <<startEl, optionsEl, initialized, apis, checkedFormats,
                   selectedProducts, bundleListEl, appVars,
                   bundleVars, uiVars, timeline, toasts>>

ExportNext ==
    \/ initexport
    \/ \E h \in 1..Len(apis) : noopStart(h)
    \/ \E h \in 1..Len(apis) : staleStart(h)
    \/ \E h \in 1..Len(apis), options \in Requests : startexport(h, options)
    \/ \E r \in 1..MaxRuns, n \in RandomDraws : Tick(r, n)

SpecExport == ExportInit /\ [][ExportNext]_vars

\* ------------------------------------------------------------------------
\* export.js: the options panel and the caller's request object during a run
\* ------------------------------------------------------------------------
\* selectedProducts.delete(productId) / selectedProducts.add(productId)
ToggleProduct(selected, productId) ==
    IF \E i \in 1..Len(selected) : selected[i] = productId
    THEN SelectSeq(selected, LAMBDA p : p # productId)
    ELSE Append(selected, productId)

\* Click on a product card of the initialised panel
clickProductCard(productId) ==
    /\ \E h \in 1..Len(apis) : apis[h] = "live"
    /\ selectedProducts' = ToggleProduct(selectedProducts, productId)
    /\ emitted' = <<>>
    /\ UNCHANGED <<startEl, optionsEl, initialized, apis, checkedFormats, runs,
                   panelVars, appVars,
                   bundleVars, uiVars, timeline, toasts>>

\* The user checks or unchecks a fileFormat checkbox
changeFormat(value) ==
    /\ checkedFormats' = IF value \in checkedFormats
                         THEN checkedFormats \ {value}
                         ELSE checkedFormats \cup {value}
    /\ emitted' = <<>>
    /\ UNCHANGED <<startEl, optionsEl, initialized, apis, selectedProducts, runs,
                   panelVars, appVars,
                   bundleVars, uiVars, timeline, toasts>>

\* Click on the start button of the initialised panel
onStartClick ==
    /\ \E h \in 1..Len(apis) : apis[h] = "live"
    /\ StartRun([given |-> {"products", "formats"},
                 products |-> selectedProducts,
                 formats |-> getSelectedFormats(checkedFormats)])

\* The caller pushes a product onto the products array of the object it
\* handed to startexport while run r is in progress; the run's products is
\* that same array.
callerPushesProduct(r, productId) ==
    /\ r \in 1..Len(runs)
    /\ runs[r].interval
    /\ "products" \in runs[r].options.given
    /\ Len(runs[r].options.products) < MaxProducts
    /\ runs' = [runs EXCEPT ![r].options.products = Append(@, productId),
                            ![r].products = Append(@, productId)]
    /\ emitted' = <<>>
    /\ UNCHANGED <<startEl, optionsEl, initialized, apis, checkedFormats,
                   selectedProducts, panelVars, appVars,
                   bundleVars, uiVars, timeline, toasts>>

\* A page that has the export anchors, with both format checkboxes checked.
PanelInit == ExportInit /\ startEl /\ optionsEl /\ checkedFormats # {}

PanelNext ==
    \/ initexport
    \/ \E h \in 1..Len(apis), options \in Requests :
          Len(runs) < MaxPanelRuns /\ startexport(h, options)
    \/ Len(runs) < MaxPanelRuns /\ onStartClick
    \/ \E productId \in ClickedCards : clickProductCard(productId)
    \/ \E value \in ChangedFormats : changeFormat(value)
    \/ \E r \in 1..MaxRuns, productId \in ClickedCards : callerPushesProduct(r, productId)
    \/ \E r \in 1..MaxRuns, n \in RandomDraws : Tick(r, n)

SpecPanel == PanelInit /\ [][PanelNext]_vars

\* ------------------------------------------------------------------------
\* app.js: generation flow
\* ------------------------------------------------------------------------
\* const duration = 8000
Duration == 8000

\* 'gen_' + Date.now()
GenId(now) == <<"gen_", now>>

\* Mutant of Progress: the share of the duration without the cap at 100.
ProgressUncapped(elapsed) == [num |-> elapsed * 100, den |-> Duration]

\* Math.min((elapsed / duration) * 100, 100), as the fraction num / den
Progress(elapsed) ==
    [num |-> Min(elapsed * 100, 100 * Duration), den |-> Duration]

\* Math.round(progress) < 100 in the place of progress < 100
Below100Rounded(progress) ==
    (2 * progress.num + progress.den) \div (2 * progress.den) < 100

\* progress < 100
Below100(progress) == progress.num < 100 * progress.den

\* Math.floor(progress) in the place of Math.round(progress)
RoundDown(progress) == progress.num \div progress.den

\* Math.round(progress): the nearest integer, halves upwards
Round(progress) == (2 * progress.num + progress.den) \div (2 * progress.den)

\* `"${prompt}"`
Quoted(prompt) == "\"" \o prompt \o "\""

\* Mutant of addTimelineEntry: the entry is put after the existing ones.
addTimelineEntryLast(entries, entry) ==
    IF timelineEl THEN Append(entries, entry) ELSE entries

\* addTimelineEntry(entry): prepended when the page has a timeline
addTimelineEntry(entries, entry) ==
    IF timelineEl THEN <<entry>> \o entries ELSE entries

\* showToast(message, type): the toast appended to the toasts container
Toast(message, type) == [message |-> message, type |-> type]

\* document.querySelector(`[data-generation-id="${id}"]`): 0 when there is none
RECURSIVE FirstCard(_, _, _)
FirstCard(cs, id, at) ==
    IF at > Len(cs) THEN 0
    ELSE IF cs[at].id = id THEN at
    ELSE FirstCard(cs, id, at + 1)

AppInit ==
    /\ startEl = FALSE
    /\ optionsEl = FALSE
    /\ initialized = FALSE
    /\ apis = <<>>
    /\ checkedFormats = {}
    /\ selectedProducts = <<"shirt", "mug", "cap">>
    /\ runs = <<>>
    /\ PanelIdle
    /\ bundleListEl = FALSE
    /\ clock = 0
    /\ statusContainer \in BOOLEAN
    /\ timelineEl \in BOOLEAN
    /\ generationQueue = <<>>
    /\ cards = <<>>
    /\ scheduled = <<>>
    /\ running = <<>>
    /\ bundleItems = <<>>
    /\ bundleSummary = EmptySummary
    /\ lineObjs = <<>>
    /\ received = <<>>
    /\ SelectIdle
    /\ PageReady
    /\ timeline = <<>>
    /\ toasts = <<>>
    /\ emitted = <<>>

\* startGeneration(prompt), with createGenerationStatusCard and the
\* synchronous part of animateGenerationProgress
startGeneration(prompt, wait) ==
    /\ running = <<>>
    /\ Len(generationQueue) < MaxGens
    /\ LET now == clock + wait
           generationId == GenId(now)
           generation == [id |-> generationId, prompt |-> prompt, status |-> "processing",
                          progress |-> [num |-> 0, den |-> Duration], startTime |-> now]
           task == Len(generationQueue) + 1
           created == IF statusContainer
                      THEN Append(cards, [id |-> generationId, title |-> prompt,
                                          badge |-> "Processing", percentage |-> 0,
                                          busy |-> FALSE])
                      ELSE cards
           card == FirstCard(created, generationId, 1)
       IN /\ clock' = now
          /\ generationQueue' = Append(generationQueue, generation)
          /\ cards' = IF card = 0 THEN created
                      ELSE [created EXCEPT ![card].busy = TRUE]
          /\ scheduled' = IF card = 0 THEN scheduled
                          ELSE Append(scheduled,
                                      [kind |-> "generation", task |-> task, card |-> card,
                                       startTime |-> now])
          /\ timeline' = addTimelineEntry(timeline,
                             [type |-> "generation_started", title |-> "Generation Started",
                              description |-> Quoted(prompt)])
          /\ toasts' = Append(toasts, Toast("Generation started", "success"))
          /\ emitted' = <<Event("generation-start", task,
                                [id |-> generationId, prompt |-> prompt]),
                          Event("toast-shown", task, Toast("Generation started", "success"))>>
    /\ UNCHANGED <<exportVars, bundleVars, uiVars, statusContainer, timelineEl, running>>

\* The browser starts an animation frame: the callbacks registered so far run in it.
Frame(gap) ==
    /\ running = <<>>
    /\ scheduled # <<>>
    /\ clock' = clock + gap
    /\ running' = scheduled
    /\ scheduled' = <<>>
    /\ emitted' = <<>>
    /\ UNCHANGED <<exportVars, bundleVars, uiVars, statusContainer, timelineEl, generationQueue, cards,
                   timeline, toasts>>

\* updateProgress of the first callback of the frame that has not run yet
updateProgress ==
    /\ running # <<>>
    /\ Head(running).kind = "generation"
    /\ LET cb == Head(running)
           generation == generationQueue[cb.task]
           elapsed == clock - cb.startTime
           progress == Progress(elapsed)
           sample == Event("generation-progress", cb.task,
                           [id |-> generation.id, progress |-> Round(progress)])
       IN /\ running' = Tail(running)
          /\ IF Below100(progress)
             THEN /\ generationQueue' = [generationQueue EXCEPT ![cb.task].progress = progress]
                  /\ cards' = [cards EXCEPT ![cb.card].percentage = Round(progress)]
                  /\ scheduled' = Append(scheduled, cb)
                  /\ emitted' = <<sample>>
                  /\ UNCHANGED <<timeline, toasts>>
             ELSE /\ generationQueue' = [generationQueue EXCEPT
                                            ![cb.task].progress = progress,
                                            ![cb.task].status = "complete"]
                  /\ cards' = [cards EXCEPT ![cb.card].percentage = Round(progress),
                                            ![cb.card].badge = "Complete",
                                            ![cb.card].busy = FALSE]
                  /\ scheduled' = scheduled
                  /\ timeline' = addTimelineEntry(timeline,
                                     [type |-> "generation_complete",
                                      title |-> "Generation Complete",
                                      description |-> Quoted(generation.prompt)])
                  /\ toasts' = Append(toasts, Toast("Generation complete!", "success"))
                  /\ emitted' = <<sample,
                                  Event("toast-shown", cb.task,
                                        Toast("Generation complete!", "success")),
                                  Event("generation-complete", cb.task,
                                        [id |-> generation.id])>>
    /\ UNCHANGED <<exportVars, bundleVars, uiVars, clock, statusContainer, timelineEl>>

AppNext ==
    \/ \E prompt \in Prompts, wait \in Waits : startGeneration(prompt, wait)
    \/ \E gap \in FrameGaps : Frame(gap)
    \/ updateProgress

SpecApp == AppInit /\ [][AppNext]_vars

\* Frames keep being delivered and the callbacks of a frame all run.
SpecAppFair ==
    /\ AppInit
    /\ [][AppNext]_vars
    /\ WF_vars(\E gap \in FrameGaps : Frame(gap))
    /\ WF_vars(updateProgress)

\* ------------------------------------------------------------------------
\* app.js: bundle management
\* ------------------------------------------------------------------------
\* Product objects handed to addToBundle: the add buttons pass quantity 1, a
\* caller of the public API passes what it likes, or no quantity at all.
BundleProducts ==
    { [id |-> "a", name |-> "Mug", price |-> Num(10), quantity |-> Num(1)],
      [id |-> "a", name |-> "Cup", price |-> Num(25), quantity |-> Num(1)],
      [id |-> "a", name |-> "Mug", price |-> Num(10), quantity |-> Undefined],
      [id |-> "b", name |-> "Cap", price |-> Num(5), quantity |-> Num(3)] }

\* Product ids handed to removeFromBundle.
BundleIds == {"a", "b"}

\* a + b
JsAdd(a, b) == IF a.t = "number" /\ b.t = "number" THEN Num(a.n + b.n) ELSE NaN

\* a * b
JsMul(a, b) == IF a.t = "number" /\ b.t = "number" THEN Num(a.n * b.n) ELSE NaN

\* Mutant of findIndex: a miss yields the last line, as splice(-1, 1) without
\* the test of the index would take it.
findIndexOrLast(items, id, at) ==
    IF \E i \in at..Len(items) : items[i].id = id
    THEN CHOOSE i \in at..Len(items) :
             items[i].id = id /\ \A j \in at..(i - 1) : items[j].id # id
    ELSE Len(items)

\* state.bundleItems.findIndex(item => item.id === id): 0 when there is none
RECURSIVE findIndex(_, _, _)
findIndex(items, id, at) ==
    IF at > Len(items) THEN 0
    ELSE IF items[at].id = id THEN at
    ELSE findIndex(items, id, at + 1)

\* Mutant of Splice: the quantity of the line is decremented, the line stays.
SpliceDecrement(items, index) ==
    [items EXCEPT ![index].quantity = JsAdd(@, Num(-1))]

\* state.bundleItems.splice(index, 1)
Splice(items, index) ==
    SubSeq(items, 1, index - 1) \o SubSeq(items, index + 1, Len(items))

\* state.bundleItems.reduce((sum, item) => sum + item.quantity, 0)
RECURSIVE ItemCount(_, _)
ItemCount(sum, items) ==
    IF items = <<>> THEN sum
    ELSE ItemCount(JsAdd(sum, Head(items).quantity), Tail(items))

\* state.bundleItems.reduce((sum, item) => sum + (item.price * item.quantity), 0)
RECURSIVE TotalPrice(_, _)
TotalPrice(sum, items) ==
    IF items = <<>> THEN sum
    ELSE TotalPrice(JsAdd(sum, JsMul(Head(items).price, Head(items).quantity)),
                    Tail(items))

\* Mutant of updateBundleSummary: the page keeps the totals it showed before.
updateBundleSummaryStale(items) == bundleSummary

\* updateBundleSummary(): the count and the total written to the page
updateBundleSummary(items) ==
    [itemCount |-> ItemCount(Num(0), items), totalPrice |-> TotalPrice(Num(0), items)]

\* state.bundleItems.slice(): a new array of the same line objects
Snapshot(items, objs) ==
    [k \in 1..Len(items) |-> [obj |-> objs[k], line |-> items[k]]]

\* What the arrays handed out earlier show once the object obj holds line.
Observed(payloads, obj, line) ==
    [p \in 1..Len(payloads) |->
        [k \in 1..Len(payloads[p]) |->
            IF payloads[p][k].obj = obj
            THEN [obj |-> obj, line |-> line]
            ELSE payloads[p][k]]]

\* Mutant of NewLine: a line is appended also when the id is in the bundle.
NewLineAlways(existing) == TRUE

\* if (existing) ... else: a line is pushed when no line has the id
NewLine(existing) == existing = 0

\* dispatchStateChange(key, value)
dispatchStateChange(key, value) ==
    <<Event("statechange", 0, [key |-> key, value |-> value]),
      CASE key = "tags" -> Event("tags-changed", 0, [tags |-> value])
        [] key = "filters" -> Event("filters-changed", 0, [filters |-> value])
        [] key = "variants" -> Event("variants-changed", 0, [variants |-> value])
        [] key = "bundle" -> Event("bundle-update", 0, [items |-> value])
        [] OTHER -> Event("state-change", 0, [key |-> key, value |-> value])>>

\* The add buttons of the page: their data-product-id, data-product-name and
\* data-product-price attributes (text is a sequence of characters).
AddButtons ==
    { [productId |-> "a", name |-> [has |-> TRUE, text |-> "Mug"],
       price |-> [has |-> TRUE, text |-> <<"1", "0">>]],
      [productId |-> "c", name |-> [has |-> FALSE, text |-> ""],
       price |-> [has |-> TRUE, text |-> <<"a", "b", "c">>]],
      [productId |-> "c", name |-> [has |-> TRUE, text |-> "Tee"],
       price |-> [has |-> FALSE, text |-> <<>>]] }

Digits == {"0", "1", "2", "3", "4", "5", "6", "7", "8", "9"}

DigitValue(c) ==
    CASE c = "0" -> 0 [] c = "1" -> 1 [] c = "2" -> 2 [] c = "3" -> 3 [] c = "4" -> 4
      [] c = "5" -> 5 [] c = "6" -> 6 [] c = "7" -> 7 [] c = "8" -> 8 [] c = "9" -> 9

\* The value of the longest prefix of digits of text, read after value so far.
RECURSIVE ParseDigits(_, _)
ParseDigits(value, text) ==
    IF text = <<>> \/ Head(text) \notin Digits THEN value
    ELSE ParseDigits(value * 10 + DigitValue(Head(text)), Tail(text))

\* parseFloat(text) for texts of digits and letters: NaN without a leading digit
parseFloat(text) ==
    IF text = <<>> \/ Head(text) \notin Digits THEN NaN
    ELSE Num(ParseDigits(0, text))

\* this.getAttribute('data-product-price') || '0'
PriceText(attribute) ==
    IF attribute.has /\ attribute.text # <<>> THEN attribute.text ELSE <<"0">>

\* this.getAttribute('data-product-name') || 'Product'
NameText(attribute) ==
    IF attribute.has /\ attribute.text # "" THEN attribute.text ELSE "Product"

BundleInit ==
    /\ AppInit
    /\ statusContainer
    /\ timelineEl

\* addToBundle(product)
addToBundle(product) ==
    /\ Len(toasts) < MaxBundleOps
    /\ LET existing == findIndex(bundleItems, product.id, 1)
           items == IF NewLine(existing)
                    THEN Append(bundleItems, product)
                    ELSE [bundleItems EXCEPT
                             ![existing].quantity = JsAdd(@, Num(1))]
           toast == Toast("Added " \o product.name \o " to bundle", "success")
           objs == IF NewLine(existing)
                   THEN Append(lineObjs, Len(toasts) + 1)
                   ELSE lineObjs
           seen == IF NewLine(existing)
                   THEN received
                   ELSE Observed(received, lineObjs[existing], items[existing])
       IN /\ bundleItems' = items
          /\ lineObjs' = objs
          /\ bundleSummary' = updateBundleSummary(items)
          /\ toasts' = Append(toasts, toast)
          /\ received' = Append(seen, Snapshot(items, objs))
          /\ emitted' = <<Event("toast-shown", 0, toast),
                          Event("bundle-changed", 0, [items |-> items, added |-> product])>>
                        \o dispatchStateChange("bundle", items)
    /\ UNCHANGED <<exportVars, appVars, uiVars, timeline>>

\* removeFromBundle(productId)
removeFromBundle(productId) ==
    /\ Len(toasts) < MaxBundleOps
    /\ LET index == findIndex(bundleItems, productId, 1)
       IN IF index # 0
          THEN LET removed == bundleItems[index]
                   items == Splice(bundleItems, index)
                   toast == Toast("Removed " \o removed.name \o " from bundle", "info")
                   held == Splice([k \in 1..Len(bundleItems) |->
                                      [obj |-> lineObjs[k],
                                       quantity |-> bundleItems[k].quantity]], index)
                   objs == [k \in 1..Len(held) |-> held[k].obj]
               IN /\ bundleItems' = items
                  /\ lineObjs' = objs
                  /\ bundleSummary' = updateBundleSummary(items)
                  /\ toasts' = Append(toasts, toast)
                  /\ received' = Append(received, Snapshot(items, objs))
                  /\ emitted' = <<Event("toast-shown", 0, toast),
                                  Event("bundle-changed", 0,
                                        [items |-> items, removed |-> removed])>>
                                \o dispatchStateChange("bundle", items)
          ELSE /\ emitted' = <<>>
               /\ UNCHANGED <<bundleVars, toasts>>
    /\ UNCHANGED <<exportVars, appVars, uiVars, timeline>>

\* Click on an add button bound by initBundleTracking
addButtonClick(button) ==
    addToBundle([id |-> button.productId,
                 name |-> NameText(button.name),
                 price |-> parseFloat(PriceText(button.price)),
                 quantity |-> Num(1)])

BundleNext ==
    \/ \E product \in BundleProducts : addToBundle(product)
    \/ \E button \in AddButtons : addButtonClick(button)
    \/ \E productId \in BundleIds : removeFromBundle(productId)

SpecBundle == BundleInit /\ [][BundleNext]_vars

\* ------------------------------------------------------------------------
\* app.js: tag chips, filter buttons and variant swatches
\* ------------------------------------------------------------------------
\* The data-tag of each tag chip of the page, in document order.
TagChips == <<"retro", "bold", "retro">>

\* The data-filter of each filter button of the page.
FilterButtons == <<"new", "sale">>

\* The variant swatches of the page: the group they are in and their data-variant.
Swatches ==
    << [group |-> "color", value |-> "red"],
       [group |-> "color", value |-> "blue"],
       [group |-> "size", value |-> "M"] >>

Range(seq) == {seq[i] : i \in 1..Len(seq)}

\* set.add(value) on a Set kept in insertion order
SetAdd(set, value) == IF value \in Range(set) THEN set ELSE Append(set, value)

\* set.delete(value)
SetDelete(set, value) == SelectSeq(set, LAMBDA v : v # value)

\* Mutant of MapSet: a click on the value the group already has clears the group.
MapToggle(map, group, value) ==
    IF \E i \in 1..Len(map) : map[i] = [group |-> group, value |-> value]
    THEN SelectSeq(map, LAMBDA entry : entry.group # group)
    ELSE IF \E i \in 1..Len(map) : map[i].group = group
         THEN [i \in 1..Len(map) |->
                  IF map[i].group = group THEN [group |-> group, value |-> value]
                  ELSE map[i]]
         ELSE Append(map, [group |-> group, value |-> value])

\* map.set(group, value) on a Map kept in insertion order
MapSet(map, group, value) ==
    IF \E i \in 1..Len(map) : map[i].group = group
    THEN [i \in 1..Len(map) |->
             IF map[i].group = group THEN [group |-> group, value |-> value]
             ELSE map[i]]
    ELSE Append(map, [group |-> group, value |-> value])

\* The page as served: any chip or button may carry the selected class.
SelectInit ==
    /\ startEl = FALSE
    /\ optionsEl = FALSE
    /\ initialized = FALSE
    /\ apis = <<>>
    /\ checkedFormats = {}
    /\ selectedProducts = <<"shirt", "mug", "cap">>
    /\ runs = <<>>
    /\ PanelIdle
    /\ bundleListEl = FALSE
    /\ clock = 0
    /\ statusContainer = TRUE
    /\ timelineEl = TRUE
    /\ generationQueue = <<>>
    /\ cards = <<>>
    /\ scheduled = <<>>
    /\ running = <<>>
    /\ bundleItems = <<>>
    /\ bundleSummary = EmptySummary
    /\ lineObjs = <<>>
    /\ received = <<>>
    /\ chipSelected \in [1..Len(TagChips) -> BOOLEAN]
    /\ activeTags = <<>>
    /\ filterSelected \in [1..Len(FilterButtons) -> BOOLEAN]
    /\ activeFilters = <<>>
    /\ swatchSelected = [i \in 1..Len(Swatches) |-> FALSE]
    /\ selectedVariants = <<>>
    /\ prevClick = NoClick
    /\ PageReady
    /\ timeline = <<>>
    /\ toasts = <<>>
    /\ emitted = <<>>

\* Click on tag chip i
clickTagChip(i) ==
    LET tag == TagChips[i]
        isSelected == chipSelected[i]
        tags == IF isSelected THEN SetDelete(activeTags, tag) ELSE SetAdd(activeTags, tag)
    IN /\ chipSelected' = [chipSelected EXCEPT ![i] = ~isSelected]
       /\ activeTags' = tags
       /\ prevClick' = [kind |-> "tag", key |-> tag, before |-> Range(activeTags)]
       /\ emitted' = dispatchStateChange("tags", tags)
       /\ UNCHANGED <<exportVars, appVars, bundleVars, pageVars, filterSelected,
                      activeFilters, swatchSelected, selectedVariants, timeline, toasts>>

\* Click on filter button i
clickFilterButton(i) ==
    LET filter == FilterButtons[i]
        isSelected == filterSelected[i]
        filters == IF isSelected THEN SetDelete(activeFilters, filter)
                   ELSE SetAdd(activeFilters, filter)
    IN /\ filterSelected' = [filterSelected EXCEPT ![i] = ~isSelected]
       /\ activeFilters' = filters
       /\ prevClick' = [kind |-> "filter", key |-> filter, before |-> Range(activeFilters)]
       /\ emitted' = dispatchStateChange("filters", filters)
       /\ UNCHANGED <<exportVars, appVars, bundleVars, pageVars, chipSelected, activeTags,
                      swatchSelected, selectedVariants, timeline, toasts>>

\* Click on variant swatch i
clickSwatch(i) ==
    LET groupName == Swatches[i].group
        variants == MapSet(selectedVariants, groupName, Swatches[i].value)
    IN /\ swatchSelected' = [k \in 1..Len(Swatches) |->
                                IF Swatches[k].group = groupName THEN k = i
                                ELSE swatchSelected[k]]
       /\ selectedVariants' = variants
       /\ prevClick' = [kind |-> "variant", key |-> groupName,
                        before |-> Range(selectedVariants)]
       /\ emitted' = dispatchStateChange("variants", variants)
       /\ UNCHANGED <<exportVars, appVars, bundleVars, pageVars, chipSelected, activeTags,
                      filterSelected, activeFilters, timeline, toasts>>

SelectNext ==
    \/ \E i \in 1..Len(TagChips) : clickTagChip(i)
    \/ \E i \in 1..Len(FilterButtons) : clickFilterButton(i)
    \/ \E i \in 1..Len(Swatches) : clickSwatch(i)

SpecSelect == SelectInit /\ [][SelectNext]_vars

\* ------------------------------------------------------------------------
\* Initialisation of the page (src/app.js, integrityChecks and initApp)
\* ------------------------------------------------------------------------
MaxTriggers == 2

MaxToggles == 1

ExportDuration == 5000

\* The pages the script is loaded in: the selectors of requiredSelectors that
\* match an element.  One page has every anchor, the others miss a critical
\* anchor, both, or an anchor that is not critical.
Pages ==
    {requiredSelectors}
        \cup {requiredSelectors \ {sel} :
                  sel \in {"[data-mm-nav]", "[data-mm-toasts]", "[data-mm-add-to-bundle]",
                           "[data-mm-timeline]"}}
        \cup {requiredSelectors \ {"[data-mm-nav]", "[data-mm-toasts]"}}

\* The value of the prompt input when a generate button is clicked; "" is an
\* empty input or a page without the input.
PromptInputs == {"", "Logo"}

\* The export buttons of the page, by their data-format attribute.
ExportButtons ==
    { [format |-> [has |-> FALSE, text |-> ""]],
      [format |-> [has |-> TRUE, text |-> "pdf"]] }

\* format.toUpperCase()
Upper(format) ==
    CASE format = "zip" -> "ZIP"
      [] format = "pdf" -> "PDF"

\* Mutant of criticalMissing: only the navigation anchor is critical.
criticalMissingNavOnly(missing) == "[data-mm-nav]" \in missing

\* critical.some(sel => missing.includes(sel))
criticalMissing(missing) ==
    \E sel \in {"[data-mm-nav]", "[data-mm-toasts]"} : sel \in missing

\* integrityChecks() on a page where the selectors of present match: what it
\* returns, what it writes to the console and what it dispatches.
integrityChecks(present) ==
    LET missing == {sel \in requiredSelectors : sel \notin present}
    IN [missing |-> missing,
        criticalMissing |-> criticalMissing(missing),
        warned |-> IF missing # {}
                   THEN <<[level |-> "warn", text |-> "Integrity check: missing selectors"]>>
                   ELSE <<>>,
        dispatched |-> IF missing # {}
                       THEN <<Event("integrity-error", 0,
                                    [missing |-> missing, severity |-> "warning"])>>
                       ELSE <<>>]

\* The body of initApp once the document is no longer loading.
bindPage ==
    LET integrity == integrityChecks(anchors)
    IN /\ anchors' = anchors \cup {"[data-mm-toasts]"}
       /\ emitted' = integrity.dispatched
       /\ IF integrity.criticalMissing
          THEN /\ console' = console \o integrity.warned \o
                     <<[level |-> "warn",
                        text |-> "Critical hooks missing; skipping some page-specific inits."]>>
               /\ bound' = {"tags", "filters", "variants"}
          ELSE /\ console' = console \o integrity.warned \o
                     <<[level |-> "log", text |-> "MockaMint Studio initialized"]>>
               /\ bound' = Features
       /\ phase' = "ready"

\* initApp(), as the last statement of the script calls it
initApp ==
    /\ phase = "script"
    /\ IF readyState = "loading"
       THEN /\ phase' = "deferred"
            /\ emitted' = <<>>
            /\ UNCHANGED <<anchors, bound, console>>
       ELSE bindPage
    /\ UNCHANGED <<exportVars, appVars, bundleVars, selectVars, readyState, modals,
                   timeline, toasts>>

\* window.MockaMint = window.MockaMint || publicApi
OrPublicApi(ns) == IF ns.defined THEN ns ELSE [defined |-> TRUE, props |-> publicApi]

\* The script app.js runs: it sets the namespace and calls initApp().
appScript ==
    /\ "app" \notin loaded
    /\ loaded' = loaded \cup {"app"}
    /\ namespace' = OrPublicApi(namespace)
    /\ UNCHANGED partDeferred
    /\ initApp

\* The object init of part_000 assigns to window.MockaMint.
PartApi ==
    [defined |-> TRUE,
     props |-> {"showToast", "showModal", "updateProgressBar", "animateProgress"}]

\* The document has been parsed: the listeners registered for it run, initApp
\* of app.js and init of part_000.
DOMContentLoaded ==
    /\ readyState = "loading"
    /\ readyState' = "interactive"
    /\ IF phase = "deferred"
       THEN bindPage
       ELSE /\ emitted' = <<>>
            /\ UNCHANGED <<anchors, bound, console, phase>>
    /\ namespace' = IF partDeferred THEN PartApi ELSE namespace
    /\ partDeferred' = FALSE
    /\ UNCHANGED <<exportVars, appVars, bundleVars, selectVars, modals, loaded, timeline,
                   toasts>>

\* The script export.js runs: window.MockaMint = window.MockaMint || {}, then
\* exportHelpers and initexport are set on it.
exportScript ==
    /\ "export" \notin loaded
    /\ loaded' = loaded \cup {"export"}
    /\ namespace' = [defined |-> TRUE,
                     props |-> namespace.props \cup {"exportHelpers", "initexport"}]
    /\ emitted' = <<>>
    /\ UNCHANGED <<exportVars, appVars, bundleVars, selectVars, anchors, bound, phase,
                   readyState, console, modals, partDeferred, timeline, toasts>>

\* The script part_000 runs: init(), which waits for DOMContentLoaded while
\* the document is loading and otherwise assigns window.MockaMint.
partScript ==
    /\ "part" \notin loaded
    /\ loaded' = loaded \cup {"part"}
    /\ IF readyState = "loading"
       THEN /\ partDeferred' = TRUE
            /\ UNCHANGED namespace
       ELSE /\ namespace' = PartApi
            /\ UNCHANGED partDeferred
    /\ emitted' = <<>>
    /\ UNCHANGED <<exportVars, appVars, bundleVars, selectVars, anchors, bound, phase,
                   readyState, console, modals, timeline, toasts>>

\* A click on an element no listener is bound to.
Unheard ==
    /\ emitted' = <<>>
    /\ UNCHANGED <<exportVars, appVars, bundleVars, uiVars, timeline, toasts>>

\* The triggers that have run a handler so far.
TriggerCount == Len(generationQueue) + Len(modals) + Len(received)

\* Math.min((elapsed / duration) * 100, 100) of animateExportProgress
ExportProgress(elapsed) ==
    [num |-> Min(elapsed * 100, 100 * ExportDuration), den |-> ExportDuration]

\* startExport(format) of app.js
startExport(format) ==
    /\ running = <<>>
    /\ LET modal == Len(modals) + 1
           toast == Toast("Export started...", "info")
       IN /\ modals' = Append(modals,
                              [format |-> format,
                               description |-> "Preparing your " \o Upper(format)
                                                   \o " bundle...",
                               valuenow |-> 0, text |-> 0, busy |-> TRUE,
                               footer |-> "progress", shown |-> "open"])
          /\ scheduled' = Append(scheduled,
                                 [kind |-> "export", task |-> modal, card |-> modal,
                                  startTime |-> clock])
          /\ timeline' = addTimelineEntry(timeline,
                             [type |-> "export_started", title |-> "Export Started",
                              description |-> "Format: " \o Upper(format)])
          /\ toasts' = Append(toasts, toast)
          /\ emitted' = <<Event("mm:export:start", modal, [format |-> format]),
                          Event("toast-shown", modal, toast)>>
    /\ UNCHANGED <<exportVars, bundleVars, selectVars, scriptVars, anchors, bound, phase, readyState,
                   console, clock, statusContainer, timelineEl, generationQueue, cards,
                   running>>

\* updateProgress of animateExportProgress, for the first callback of the
\* frame that has not run yet
updateExportProgress ==
    /\ running # <<>>
    /\ Head(running).kind = "export"
    /\ LET cb == Head(running)
           format == modals[cb.task].format
           elapsed == clock - cb.startTime
           progress == ExportProgress(elapsed)
           toast == Toast("Export complete! Ready to download.", "success")
           sample == Event("mm:export:progress", cb.task,
                           [format |-> format, progress |-> Round(progress)])
       IN /\ running' = Tail(running)
          /\ IF Below100(progress)
             THEN /\ modals' = [modals EXCEPT ![cb.task].valuenow = Round(progress),
                                              ![cb.task].text = Round(progress)]
                  /\ scheduled' = Append(scheduled, cb)
                  /\ emitted' = <<sample>>
                  /\ UNCHANGED <<timeline, toasts>>
             ELSE /\ modals' = [modals EXCEPT ![cb.task].valuenow = 100,
                                              ![cb.task].text = Round(progress),
                                              ![cb.task].description = "Export complete!",
                                              ![cb.task].footer = "download",
                                              ![cb.task].busy = FALSE]
                  /\ scheduled' = scheduled
                  /\ timeline' = addTimelineEntry(timeline,
                                     [type |-> "export_complete", title |-> "Export Complete",
                                      description |-> Upper(format) \o " bundle ready"])
                  /\ toasts' = Append(toasts, toast)
                  /\ emitted' = <<sample, Event("toast-shown", cb.task, toast),
                                  Event("mm:export:complete", cb.task, [format |-> format])>>
    /\ UNCHANGED <<exportVars, bundleVars, selectVars, scriptVars, anchors, bound, phase, readyState,
                   console, clock, statusContainer, timelineEl, generationQueue, cards>>

\* closeExportModal(modal), from a click on the overlay of modal m: the
\* modal is hidden and its removal is set for 300 ms later.
closeExportModal(m) ==
    /\ m \in 1..Len(modals)
    /\ modals[m].shown \in {"open", "closing"}
    /\ modals' = [modals EXCEPT ![m].shown = "closing"]
    /\ emitted' = <<>>
    /\ UNCHANGED <<exportVars, appVars, bundleVars, selectVars, scriptVars, anchors, bound, phase,
                   readyState, console, timeline, toasts>>

\* Mutant of removeModal: removing the modal also cancels its progress.
removeModalCancels(m) ==
    /\ m \in 1..Len(modals)
    /\ modals[m].shown = "closing"
    /\ modals' = [modals EXCEPT ![m].shown = "removed"]
    /\ scheduled' = SelectSeq(scheduled, LAMBDA cb : ~(cb.kind = "export" /\ cb.task = m))
    /\ running' = SelectSeq(running, LAMBDA cb : ~(cb.kind = "export" /\ cb.task = m))
    /\ emitted' = <<>>
    /\ UNCHANGED <<exportVars, bundleVars, selectVars, scriptVars, anchors, bound, phase, readyState,
                   console, clock, statusContainer, timelineEl, generationQueue, cards,
                   timeline, toasts>>

\* The timer of closeExportModal fires: modal.remove()
removeModal(m) ==
    /\ m \in 1..Len(modals)
    /\ modals[m].shown = "closing"
    /\ modals' = [modals EXCEPT ![m].shown = "removed"]
    /\ emitted' = <<>>
    /\ UNCHANGED <<exportVars, appVars, bundleVars, selectVars, scriptVars, anchors, bound, phase,
                   readyState, console, timeline, toasts>>

\* Whether a click on a trigger of the feature reaches a listener.
Hears(feature) == phase = "ready" /\ feature \in bound

\* A click on an add-to-bundle button
clickAddToBundle(button) ==
    IF Hears("bundle")
    THEN TriggerCount < MaxTriggers /\ addButtonClick(button)
    ELSE Unheard

\* A click on a generate button
clickGenerate(value, wait) ==
    IF Hears("generation")
    THEN /\ TriggerCount < MaxTriggers
         /\ startGeneration(IF value = "" THEN "Untitled Design" ELSE value, wait)
    ELSE Unheard

\* A click on an export button
clickExport(button) ==
    IF Hears("export")
    THEN /\ TriggerCount < MaxTriggers
         /\ startExport(IF button.format.has /\ button.format.text # ""
                        THEN button.format.text ELSE "zip")
    ELSE Unheard

\* The entries of the three selections.
ToggleCount == Len(activeTags) + Len(activeFilters) + Len(selectedVariants)

\* A click on the first tag chip, filter button or variant swatch
clickToggle(kind) ==
    IF Hears(kind)
    THEN /\ ToggleCount < MaxToggles
         /\ CASE kind = "tags" -> clickTagChip(1)
              [] kind = "filters" -> clickFilterButton(1)
              [] kind = "variants" -> clickSwatch(1)
    ELSE Unheard

PageInit ==
    /\ startEl = FALSE
    /\ optionsEl = FALSE
    /\ initialized = FALSE
    /\ apis = <<>>
    /\ checkedFormats = {}
    /\ selectedProducts = <<"shirt", "mug", "cap">>
    /\ runs = <<>>
    /\ PanelIdle
    /\ bundleListEl = FALSE
    /\ clock = 0
    /\ anchors \in Pages
    /\ statusContainer = ("[data-mm-generation-status-container]" \in anchors)
    /\ timelineEl = ("[data-mm-timeline]" \in anchors)
    /\ generationQueue = <<>>
    /\ cards = <<>>
    /\ scheduled = <<>>
    /\ running = <<>>
    /\ bundleItems = <<>>
    /\ bundleSummary = EmptySummary
    /\ lineObjs = <<>>
    /\ received = <<>>
    /\ chipSelected = [i \in 1..Len(TagChips) |-> FALSE]
    /\ activeTags = <<>>
    /\ filterSelected = [i \in 1..Len(FilterButtons) |-> FALSE]
    /\ activeFilters = <<>>
    /\ swatchSelected = [i \in 1..Len(Swatches) |-> FALSE]
    /\ selectedVariants = <<>>
    /\ prevClick = NoClick
    /\ bound = {}
    /\ namespace = NoNamespace
    /\ loaded = {}
    /\ partDeferred = FALSE
    /\ phase = "script"
    /\ readyState \in {"loading", "complete"}
    /\ console = <<>>
    /\ modals = <<>>
    /\ timeline = <<>>
    /\ toasts = <<>>
    /\ emitted = <<>>

PageNext ==
    \/ appScript
    \/ DOMContentLoaded
    \/ \E button \in AddButtons : clickAddToBundle(button)
    \/ \E value \in PromptInputs : clickGenerate(value, 1)
    \/ \E button \in ExportButtons : clickExport(button)
    \/ \E kind \in {"tags", "filters", "variants"} : clickToggle(kind)
    \/ \E gap \in {3990} : Frame(gap)
    \/ updateProgress
    \/ updateExportProgress
    \/ \E m \in 1..MaxTriggers : closeExportModal(m)
    \/ \E m \in 1..MaxTriggers : removeModal(m)

SpecPage == PageInit /\ [][PageNext]_vars

\* The three scripts on a page with every anchor, in any order, before or
\* after the document has been parsed.
ScriptsInit == PageInit /\ anchors = requiredSelectors

ScriptsNext ==
    \/ appScript
    \/ exportScript
    \/ partScript
    \/ DOMContentLoaded
    \/ \E button \in ExportButtons : clickExport(button)
    \/ \E gap \in {3990} : Frame(gap)
    \/ updateExportProgress

SpecScripts == ScriptsInit /\ [][ScriptsNext]_vars

\* Frames keep being delivered and the callbacks of a frame all run.
SpecPageFair ==
    /\ PageInit
    /\ [][PageNext]_vars
    /\ WF_vars(\E gap \in {3990} : Frame(gap))
    /\ WF_vars(updateProgress)
    /\ WF_vars(updateExportProgress)

\* The interval timer keeps firing and Math.random() does not return 0 for ever.
SpecExportFair ==
    /\ ExportInit
    /\ [][ExportNext]_vars
    /\ \A r \in 1..MaxRuns : WF_vars(\E n \in RandomDraws \ {0} : Tick(r, n))

\* ------------------------------------------------------------------------
\* Properties of the export workflow
\* ------------------------------------------------------------------------
Completed(r) == r \in 1..Len(runs) /\ runs[r].completes >= 1

\* files lists products x formats in product-major order, one entry per pair
IsProductMajor(files, products, formats) ==
    /\ Len(files) = Len(products) * Len(formats)
    /\ \A i \in 1..Len(products), j \in 1..Len(formats) :
          files[(i - 1) * Len(formats) + j] =
              [product |-> products[i], format |-> formats[j],
               filename |-> products[i] \o "." \o formats[j]]

CheckedInOrder(checked) == SelectSeq(fileFormatCheckboxes, LAMBDA v : v \in checked)

\* C1 as stated: the manifest carried by export-complete is exactly
\* request.products x request.formats in product-major order, also when the
\* request's product list or format list is empty.
C1_ManifestIsRequestProduct ==
    \A r \in 1..Len(runs) :
        (Completed(r) /\ runs[r].options.given = {"products", "formats"}) =>
            IsProductMajor(runs[r].completeDetail.files,
                           runs[r].options.products, runs[r].options.formats)

\* C1 amended: the manifest carried by export-complete is exactly
\* request.products x F in product-major order, with filename product.format,
\* where F is request.formats when that list is non-empty and the format
\* inputs checked when the run started (in document order) when it is empty.
C1_ManifestIsProductOfFormatsUsed ==
    \A r \in 1..Len(runs) :
        (Completed(r) /\ runs[r].options.given = {"products", "formats"}) =>
            LET o == runs[r].options
                F == IF o.formats # <<>> THEN o.formats
                     ELSE CheckedInOrder(runs[r].checkedAtStart)
            IN IsProductMajor(runs[r].completeDetail.files, o.products, F)

\* A run asked for no format while two inputs were checked, and completed.
C1_Witness ==
    \E r \in 1..Len(runs) :
        /\ Completed(r)
        /\ runs[r].options.products = <<"shirt">>
        /\ runs[r].options.formats = <<>>
        /\ Len(runs[r].completeDetail.files) = 2

\* C2: within one run the percent values carried by export-progress are
\* non-decreasing, never above 100, and the last one emitted is exactly 100.
C2_ProgressMonotoneClamped ==
    /\ [](\A r \in 1..Len(runs) :
            /\ runs[r].lastPercent <= 100
            /\ (runs[r].completes >= 1 => runs[r].lastPercent = 100))
    /\ [][\A i \in 1..Len(emitted') :
            emitted'[i].type = "export-progress" =>
                /\ emitted'[i].detail <= 100
                /\ emitted'[i].run \in 1..Len(runs)
                /\ emitted'[i].detail >= runs[emitted'[i].run].lastPercent]_vars

\* A run whose latest tick took it from 90 past 100 and emitted 100.
C2_Witness ==
    \E r \in 1..Len(runs) :
        /\ runs[r].percent = 100
        /\ runs[r].lastPercent = 100
        /\ Len(emitted) >= 1
        /\ emitted[1] = Event("export-progress", r, 100)

\* C3: a run emits at most one export-complete, its timer is cancelled in the
\* tick that emits it, and no export-progress or export-complete of the run
\* is emitted after it.
C3_OneCompleteThenSilence ==
    /\ [](\A r \in 1..Len(runs) :
            /\ runs[r].completes <= 1
            /\ (runs[r].completes = 1 <=> ~runs[r].interval))
    /\ [][\A i \in 1..Len(emitted') :
            emitted'[i].type \in {"export-progress", "export-complete"} =>
                /\ emitted'[i].run \in 1..Len(runs)
                /\ runs[emitted'[i].run].completes = 0]_vars

\* One run has completed and its timer is cancelled while another still ticks.
C3_Witness ==
    \E r, q \in 1..Len(runs) :
        /\ runs[r].completes = 1 /\ ~runs[r].interval
        /\ runs[q].completes = 0 /\ runs[q].interval /\ runs[q].percent > 0

\* C4: every run started by startexport on a page with the export anchors
\* eventually emits export-complete and resolves its promise, and a timer is
\* never cancelled before that (no abort).
C4_EveryRunCompletes ==
    /\ \A r \in 1..MaxRuns :
          (Len(runs) >= r) ~>
              (Len(runs) >= r /\ runs[r].completes >= 1 /\ runs[r].promise.state = "resolved")
    /\ [](\A r \in 1..Len(runs) : ~runs[r].interval => runs[r].completes >= 1)

\* Every run the bound allows was started and all of them completed.
C4_Witness ==
    /\ Len(runs) = MaxRuns
    /\ \A r \in 1..Len(runs) : runs[r].promise.state = "resolved"

\* C5: the promise of a run is resolved by one call of resolve, after
\* export-complete was dispatched, with the {files, summary} the event
\* carried; productCount is the number of requested products and fileCount
\* the number of manifest files.
C5_PromiseResolvesWithEventDetail ==
    /\ \A r \in 1..Len(runs) :
          /\ runs[r].resolveCalls <= 1
          /\ runs[r].promise.state = "resolved" =>
                /\ runs[r].completes >= 1
                /\ runs[r].promise.value = runs[r].completeDetail
                /\ ("products" \in runs[r].options.given =>
                      runs[r].promise.value.summary.productCount
                          = Len(runs[r].options.products))
                /\ runs[r].promise.value.summary.fileCount
                      = Len(runs[r].promise.value.files)
    /\ \A j \in 1..Len(emitted) :
          emitted[j].type = "promise-resolve" =>
              \E i \in 1..(j - 1) :
                  /\ emitted[i].type = "export-complete"
                  /\ emitted[i].run = emitted[j].run
                  /\ emitted[i].detail = emitted[j].detail

\* The run of the two-product, two-format request resolved with 2 and 4.
C5_Witness ==
    \E r \in 1..Len(runs) :
        /\ runs[r].promise.state = "resolved"
        /\ runs[r].promise.value.summary.productCount = 2
        /\ runs[r].promise.value.summary.fileCount = 4

\* C6: on a page lacking the start anchor or the options anchor, every
\* startexport handed out by initexport returns a promise resolved to null
\* and logs a warning, rejects nothing and emits no export notification.
C6_EveryHandleIsNoop ==
    (~startEl \/ ~optionsEl) =>
        /\ runs = <<>>
        /\ \A i \in 1..Len(emitted) :
              /\ emitted[i].type \notin {"export-start", "export-progress", "export-complete"}
              /\ emitted[i].type = "return" =>
                    /\ emitted[i].detail.state = "resolved"
                    /\ emitted[i].detail.value = Null
                    /\ \E j \in 1..Len(emitted) : emitted[j].type = "console.warn"

\* C7: when an export run has reached 100, the timeline holds an
\* "Export Complete" entry and a success toast was shown.
C7_CompletionIsRecorded ==
    \A r \in 1..Len(runs) :
        Completed(r) =>
            /\ \E i \in 1..Len(timeline) : timeline[i].title = "Export Complete"
            /\ \E i \in 1..Len(toasts) : toasts[i].type = "success"

\* C8: for each generation id the notifications come in order: one
\* generation-start first, then generation-progress samples, then exactly one
\* generation-complete, and nothing for that id after it.  Stated on what a
\* handler emits: a generation-start never names an id already in the queue,
\* and no generation-progress or generation-complete names an id of which a
\* task has already completed.
C8_NotificationsInOrderPerId ==
    [][\A i \in 1..Len(emitted') :
          LET e == emitted'[i]
          IN /\ e.type = "generation-start" =>
                    \A k \in 1..Len(generationQueue) :
                        generationQueue[k].id # e.detail.id
             /\ e.type \in {"generation-progress", "generation-complete"} =>
                    \A k \in 1..Len(generationQueue) :
                        generationQueue[k].id = e.detail.id =>
                            generationQueue[k].status # "complete"]_vars

\* C9: exactly one generation-progress notification of a generation carries
\* the value 100, the one of the completing sample: a sample that reports 100
\* is followed, in the same callback, by the generation-complete of its id.
C9_Only100IsTheCompletingSample ==
    \A i \in 1..Len(emitted) :
        (emitted[i].type = "generation-progress" /\ emitted[i].detail.progress = 100) =>
            \E j \in (i + 1)..Len(emitted) :
                /\ emitted[j].type = "generation-complete"
                /\ emitted[j].detail.id = emitted[i].detail.id

\* C10: every generation that was started eventually completes, whatever the
\* page contains, the generation status container included.
C10_EveryGenerationCompletes ==
    \A k \in 1..MaxGens :
        (Len(generationQueue) >= k) ~>
            (Len(generationQueue) >= k /\ generationQueue[k].status = "complete")

\* C11: the generation-progress values emitted for one generation id never
\* decrease, every value is an integer between 0 and 100, and it is the
\* nearest integer to min(100, elapsed / 8000 x 100) at the sample (v is that
\* integer when v - 1/2 <= x < v + 1/2).
C11_ProgressIsRoundedShareOfDuration ==
    [][\A i \in 1..Len(emitted') :
          LET e == emitted'[i]
              v == e.detail.progress
              elapsed == clock' - generationQueue[e.run].startTime
              share == Min(elapsed * 100, 100 * Duration)
          IN e.type = "generation-progress" =>
                /\ v \in 0..100
                /\ 2 * v * Duration - Duration <= 2 * share
                /\ 2 * share < 2 * v * Duration + Duration
                /\ \A k \in 1..Len(generationQueue) :
                       generationQueue[k].id = e.detail.id =>
                           2 * generationQueue[k].progress.num
                               < 2 * v * generationQueue[k].progress.den
                                   + generationQueue[k].progress.den]_vars

\* A later sample of a generation has reported a value strictly inside 0..100.
C11_Witness ==
    \E i \in 1..Len(emitted) :
        /\ emitted[i].type = "generation-progress"
        /\ emitted[i].detail.progress = 75

\* C12: every call of startGeneration creates a task whose id differs from
\* the id of every task already in the generation queue: the ids in the
\* queue are pairwise different.
C12_TaskIdsAreFresh ==
    \A j, k \in 1..Len(generationQueue) :
        j # k => generationQueue[j].id # generationQueue[k].id

\* C13: a generation completes at the first sample whose elapsed time is at
\* least 8000 ms and at no earlier one.  The completing sample reports 100,
\* runs the completion branch and registers no further frame; a sample before
\* it leaves the task processing and registers the next frame.
C13_CompletesAtFirstSampleFrom8000 ==
    [][\A i \in 1..Len(emitted') :
          LET e == emitted'[i]
              k == e.run
              elapsed == clock' - generationQueue[k].startTime
              again == \E c \in 1..Len(scheduled') : scheduled'[c].task = k
          IN e.type = "generation-progress" =>
                /\ generationQueue[k].status = "processing"
                /\ IF elapsed >= Duration
                   THEN /\ e.detail.progress = 100
                        /\ generationQueue'[k].status = "complete"
                        /\ \E j \in (i + 1)..Len(emitted') :
                               /\ emitted'[j].type = "generation-complete"
                               /\ emitted'[j].run = k
                        /\ ~again
                   ELSE /\ generationQueue'[k].status = "processing"
                        /\ \A j \in 1..Len(emitted') :
                               emitted'[j].type # "generation-complete"
                        /\ again]_vars

\* A generation has completed at a sample taken exactly 8000 ms after its start.
C13_Witness ==
    \E i \in 1..Len(emitted) :
        /\ emitted[i].type = "generation-complete"
        /\ clock - generationQueue[emitted[i].run].startTime = Duration
        /\ generationQueue[emitted[i].run].status = "complete"

\* C14: overlapping generations each own their task record and their status
\* card: the card created for a generation is keyed by its id, and once the
\* generation is complete its own card shows Complete and is no longer busy.
C14_OwnCardReachesComplete ==
    \A k \in 1..Len(generationQueue) :
        generationQueue[k].status = "complete" =>
            /\ k <= Len(cards)
            /\ cards[k].id = generationQueue[k].id
            /\ cards[k].badge = "Complete"
            /\ ~cards[k].busy

\* C15: overlapping export runs keep their own percent counter, timer and
\* manifest.  A step that changes one run leaves every other run as it was
\* (its timer included), never lowers the run's percent, emits notifications
\* of that run only, and its export-complete, emitted once, carries the files
\* planned for that run's own request.
C15_RunsDoNotInterfere ==
    [][\A q \in 1..Len(runs) :
          runs'[q] # runs[q] =>
             /\ \A p \in 1..Len(runs) : p # q => runs'[p] = runs[p]
             /\ runs'[q].percent >= runs[q].percent
             /\ \A i \in 1..Len(emitted') :
                   /\ emitted'[i].run = q
                   /\ emitted'[i].type = "export-complete" =>
                         /\ runs[q].completes = 0
                         /\ emitted'[i].detail.files = runs[q].files
                         /\ emitted'[i].detail.summary.options = runs[q].options
                         /\ IsProductMajor(emitted'[i].detail.files,
                                           runs[q].products, runs[q].formats)]_vars

\* Two runs with different requests overlap: the first has completed while
\* the second, already ticked, still has its timer.
C15_Witness ==
    /\ Len(runs) = 2
    /\ runs[1].options # runs[2].options
    /\ runs[1].completes = 1
    /\ runs[2].percent > 0
    /\ runs[2].interval
    /\ runs[1].completeDetail.files # runs[2].files

\* C16: the manifest and the summary emitted at export completion are those
\* of the request as it was when the run started: the files, productCount,
\* fileCount and formats are those planned at the start, whatever happened to
\* the selection of the panel or to the caller's request object meanwhile.
C16_CompletionReportsRequestAtStart ==
    \A r \in 1..Len(runs) :
        Completed(r) =>
            LET d == runs[r].completeDetail
                planned == runs[r].planned
            IN /\ d.files = PlanFiles(<<>>, planned.products, planned.formats)
               /\ d.summary.fileCount = Len(planned.products) * Len(planned.formats)
               /\ d.summary.productCount = Len(planned.products)
               /\ d.summary.formats = planned.formats

\* C17: after any sequence of addItem and removeItem calls the bundle holds
\* at most one line per item id.
C17_OneLinePerId ==
    \A i, j \in 1..Len(bundleItems) :
        i # j => bundleItems[i].id # bundleItems[j].id

\* An id was added again while the bundle holds two lines.
C17_Witness ==
    /\ Len(bundleItems) = 2
    /\ \E i \in 1..2 : bundleItems[i].quantity = Num(2)
    /\ \E i \in 1..Len(emitted) :
          /\ emitted[i].type = "bundle-changed"
          /\ "added" \in DOMAIN emitted[i].detail

\* C18: n adds of an id that was not in the bundle yield one line with
\* quantity n.  Its first step: an add of an id that is not in the bundle
\* appends a line with quantity 1, whatever quantity the argument carries or
\* lacks, and raises itemCount by 1 and totalPrice by the price.
C18_FirstAddCreatesQuantityOne ==
    [][\A i \in 1..Len(emitted') :
          LET e == emitted'[i]
          IN (/\ e.type = "bundle-changed"
              /\ "added" \in DOMAIN e.detail
              /\ findIndex(bundleItems, e.detail.added.id, 1) = 0) =>
                /\ Len(bundleItems') = Len(bundleItems) + 1
                /\ bundleItems'[Len(bundleItems')].id = e.detail.added.id
                /\ bundleItems'[Len(bundleItems')].quantity = Num(1)
                /\ bundleSummary.itemCount.t = "number" =>
                      bundleSummary'.itemCount = Num(bundleSummary.itemCount.n + 1)]_vars

\* C19: an add of an id that is in the bundle raises the quantity of that
\* line by exactly 1 and changes nothing else: the line keeps its name and
\* price, the other lines and the order of the lines stay.
C19_AddOnExistingOnlyIncrements ==
    [][\A i \in 1..Len(emitted') :
          LET e == emitted'[i]
              at == findIndex(bundleItems, e.detail.added.id, 1)
          IN (/\ e.type = "bundle-changed"
              /\ "added" \in DOMAIN e.detail
              /\ at # 0) =>
                /\ bundleItems[at].quantity.t = "number"
                /\ bundleItems' =
                      [bundleItems EXCEPT
                          ![at].quantity = Num(bundleItems[at].quantity.n + 1)]]_vars

\* C20: removeItem of an id in the bundle removes its line whatever the
\* quantity: no line has the id afterwards, the other lines keep their
\* order, and itemCount and totalPrice drop by what the line counted for.
C20_RemoveDropsTheWholeLine ==
    [][\A i \in 1..Len(emitted') :
          LET e == emitted'[i]
              gone == e.detail.removed
          IN (e.type = "bundle-changed" /\ "removed" \in DOMAIN e.detail) =>
                /\ \E at \in 1..Len(bundleItems) : bundleItems[at] = gone
                /\ \A at \in 1..Len(bundleItems') : bundleItems'[at].id # gone.id
                /\ bundleItems' = SelectSeq(bundleItems, LAMBDA line : line.id # gone.id)
                /\ bundleSummary.totalPrice.t = "number" =>
                      /\ bundleSummary'.itemCount =
                             Num(bundleSummary.itemCount.n - gone.quantity.n)
                      /\ bundleSummary'.totalPrice =
                             Num(bundleSummary.totalPrice.n
                                   - gone.price.n * gone.quantity.n)]_vars

\* A line with quantity 2 has been removed while another line stays.
C20_Witness ==
    /\ Len(bundleItems) = 1
    /\ \E i \in 1..Len(emitted) :
          /\ emitted[i].type = "bundle-changed"
          /\ "removed" \in DOMAIN emitted[i].detail
          /\ emitted[i].detail.removed.quantity = Num(2)

\* C21: removeItem of an id that is not in the bundle changes nothing: the
\* lines, itemCount and totalPrice stay, no toast is shown and nothing is
\* emitted; so a second removeItem right after a successful one is a no-op.
C21_RemoveOfAbsentIdIsNoop ==
    [][\A productId \in BundleIds :
          (/\ removeFromBundle(productId)
           /\ \A at \in 1..Len(bundleItems) : bundleItems[at].id # productId) =>
                /\ bundleItems' = bundleItems
                /\ bundleSummary' = bundleSummary
                /\ toasts' = toasts
                /\ emitted' = <<>>]_vars

\* A removeItem that found nothing came right after a successful one and
\* another line is still in the bundle.
C21_Witness ==
    /\ emitted = <<>>
    /\ Len(bundleItems) = 1
    /\ Len(toasts) = 3
    /\ toasts[3].type = "info"

\* The sum of the quantities, and of price x quantity, of the first k lines.
RECURSIVE SumOfQuantities(_)
SumOfQuantities(k) ==
    IF k = 0 THEN 0 ELSE SumOfQuantities(k - 1) + bundleItems[k].quantity.n

RECURSIVE SumOfPrices(_)
SumOfPrices(k) ==
    IF k = 0 THEN 0
    ELSE SumOfPrices(k - 1) + bundleItems[k].price.n * bundleItems[k].quantity.n

\* C22: in every reachable state the itemCount shown is the sum of the
\* quantities and the totalPrice shown is the sum of price x quantity over
\* the lines in the bundle (not a number when a term is not a number).
C22_TotalsAgreeWithLines ==
    LET lines == 1..Len(bundleItems)
        counted == \A k \in lines : bundleItems[k].quantity.t = "number"
        priced == \A k \in lines : bundleItems[k].price.t = "number"
    IN /\ bundleSummary.itemCount =
              IF counted THEN Num(SumOfQuantities(Len(bundleItems))) ELSE NaN
       /\ bundleSummary.totalPrice =
              IF counted /\ priced THEN Num(SumOfPrices(Len(bundleItems))) ELSE NaN

\* Two lines with several units are in the bundle after a removal and an add.
C22_Witness ==
    /\ Len(bundleItems) = 2
    /\ bundleSummary.itemCount = Num(4)
    /\ bundleSummary.totalPrice = Num(40)
    /\ \E i \in 1..Len(toasts) : toasts[i].type = "info"

\* C23: the item list carried by a bundle-changed notification is a snapshot:
\* what an observer received, the lines and their quantities, is not changed
\* by a later addItem or removeItem.
C23_ReceivedItemsNeverChange ==
    [][\A p \in 1..Len(received) : received'[p] = received[p]]_vars

\* C24: a price that is not numeric on an add button is coerced to 0: after
\* a click on an add button the line of its product has a numeric price,
\* which is 0 when the line is new and the price text has no number, and a
\* totalPrice that was a number is still a number.
C24_MalformedPriceBecomesZero ==
    [][\A button \in AddButtons :
          addButtonClick(button) =>
             LET was == findIndex(bundleItems, button.productId, 1)
                 at == findIndex(bundleItems', button.productId, 1)
                 text == PriceText(button.price)
             IN /\ at # 0
                /\ bundleItems'[at].price.t = "number"
                /\ (was = 0 /\ Head(text) \notin Digits) => bundleItems'[at].price = Num(0)
                /\ bundleSummary.totalPrice.t = "number" =>
                      bundleSummary'.totalPrice.t = "number"]_vars

\* C25: two toggles of the same tag in a row bring activeTags back to the
\* set it was before the first of them.
C25_TwoTogglesRestoreTags ==
    [][\A i \in 1..Len(TagChips) :
          (/\ clickTagChip(i)
           /\ prevClick.kind = "tag"
           /\ prevClick.key = TagChips[i]) =>
                Range(activeTags') = prevClick.before]_vars

\* C26: a tag toggle flips the membership of the tag in activeTags,
\* whichever chip with the tag is clicked, and tags-changed carries the set
\* after the flip; likewise a filter toggle, activeFilters and filters-changed.
C26_ToggleFlipsMembership ==
    [][/\ \A i \in 1..Len(TagChips) :
             clickTagChip(i) =>
                /\ (TagChips[i] \in Range(activeTags'))
                      <=> (TagChips[i] \notin Range(activeTags))
                /\ emitted'[2].type = "tags-changed"
                /\ emitted'[2].detail.tags = activeTags'
       /\ \A i \in 1..Len(FilterButtons) :
             clickFilterButton(i) =>
                /\ (FilterButtons[i] \in Range(activeFilters'))
                      <=> (FilterButtons[i] \notin Range(activeFilters))
                /\ emitted'[2].type = "filters-changed"
                /\ emitted'[2].detail.filters = activeFilters']_vars

\* C27: a click on a swatch maps its group to its value whatever the group
\* was mapped to, leaves the other groups as they were, keeps one value per
\* group, and emits variants-changed with the whole mapping after the change.
C27_SelectVariantReplaces ==
    [][\A i \in 1..Len(Swatches) :
          clickSwatch(i) =>
             LET g == Swatches[i].group
                 after == Range(selectedVariants')
             IN /\ [group |-> g, value |-> Swatches[i].value] \in after
                /\ \A entry \in after : entry.group = g => entry.value = Swatches[i].value
                /\ {entry \in after : entry.group # g}
                      = {entry \in Range(selectedVariants) : entry.group # g}
                /\ \A j, k \in 1..Len(selectedVariants') :
                      j # k => selectedVariants'[j].group # selectedVariants'[k].group
                /\ emitted'[2].type = "variants-changed"
                /\ emitted'[2].detail.variants = selectedVariants']_vars

\* color was red and M was chosen; a click on blue left exactly color = blue
\* next to size = M.
C27_Witness ==
    /\ prevClick.kind = "variant"
    /\ prevClick.key = "color"
    /\ [group |-> "color", value |-> "red"] \in prevClick.before
    /\ Range(selectedVariants) = {[group |-> "color", value |-> "blue"],
                                  [group |-> "size", value |-> "M"]}

\* The calls of addTimelineEntry made so far by the generation flow: one by
\* each startGeneration and one by each completion.
TimelineCalls ==
    Len(generationQueue)
      + Cardinality({k \in 1..Len(generationQueue) : generationQueue[k].status = "complete"})

\* C28 as stated: after any N calls of the timeline append operation the log
\* holds exactly N entries.
C28_LogHoldsEveryAppend == Len(timeline) = TimelineCalls

\* C28 amended: on a page with a timeline element the log holds one entry
\* per call, and a call puts its entry before the existing entries, which
\* stay as they were, in their order; on a page without a timeline element
\* a call does nothing and the log stays empty.
C28_LogHoldsEveryAppendOfTimelinePage ==
    /\ [](IF timelineEl THEN Len(timeline) = TimelineCalls ELSE timeline = <<>>)
    /\ [][timeline' # timeline =>
             /\ Len(timeline') = Len(timeline) + 1
             /\ Tail(timeline') = timeline
             /\ timeline'[1].type \in {"generation_started", "generation_complete"}]_vars

\* Three entries were appended: the first one is the latest, a completion,
\* and the last one is the oldest, the start of the first generation.
C28_Witness ==
    /\ timelineEl
    /\ Len(timeline) = 3
    /\ timeline[1].type = "generation_complete"
    /\ timeline[3].type = "generation_started"
    /\ timeline[3].description = Quoted(generationQueue[1].prompt)

\* C29: a generation task stays in the queue once created and is changed
\* only by its own progress ticks, which leave its id, prompt and start time;
\* in every state its progress is within 0..100 and a complete task has
\* progress 100.
C29_TasksAreKeptAndOwnTheirProgress ==
    /\ [](\A k \in 1..Len(generationQueue) :
             LET task == generationQueue[k]
             IN /\ 0 <= task.progress.num
                /\ task.progress.num <= 100 * task.progress.den
                /\ task.status \in {"processing", "complete"}
                /\ task.status = "complete" => task.progress.num = 100 * task.progress.den)
    /\ [][/\ Len(generationQueue') >= Len(generationQueue)
          /\ \A k \in 1..Len(generationQueue) :
                generationQueue'[k] # generationQueue[k] =>
                   /\ \E i \in 1..Len(emitted') :
                         /\ emitted'[i].type = "generation-progress"
                         /\ emitted'[i].run = k
                   /\ generationQueue'[k].id = generationQueue[k].id
                   /\ generationQueue'[k].prompt = generationQueue[k].prompt
                   /\ generationQueue'[k].startTime = generationQueue[k].startTime]_vars

\* Of two queued tasks one is complete and the other one is half way.
C29_Witness ==
    /\ Len(generationQueue) = 2
    /\ \E j, k \in 1..2 :
          /\ generationQueue[j].status = "complete"
          /\ generationQueue[k].status = "processing"
          /\ generationQueue[k].progress.num > 0

\* ------------------------------------------------------------------------
\* Properties of the initialisation of the page
\* ------------------------------------------------------------------------
\* A critical anchor, the navigation or the toast one, is absent.
CriticalAbsent == "[data-mm-nav]" \notin anchors \/ "[data-mm-toasts]" \notin anchors

\* No bundle line, generation task, export modal, toast or timeline entry.
NothingTriggered ==
    /\ bundleItems = <<>>
    /\ bundleSummary = EmptySummary
    /\ generationQueue = <<>>
    /\ cards = <<>>
    /\ modals = <<>>
    /\ scheduled = <<>>
    /\ toasts = <<>>
    /\ timeline = <<>>

\* C30: on a page where a required anchor is absent initApp runs to its end
\* and warns: it writes a warning to the console and dispatches the
\* integrity event.  If the navigation or the toast anchor is absent it
\* binds the tag, filter and variant toggles and nothing else, and from then
\* on no click on a bundle, generation or export trigger has any effect.
C30_MissingAnchorsDegradeInit ==
    /\ [][(phase # "ready" /\ phase' = "ready") =>
             /\ anchors # requiredSelectors =>
                   /\ \E i \in 1..Len(console') : console'[i].level = "warn"
                   /\ \E i \in 1..Len(emitted') : emitted'[i].type = "integrity-error"
             /\ CriticalAbsent => bound' = {"tags", "filters", "variants"}]_vars
    /\ CriticalAbsent => [](NothingTriggered /\ (phase = "ready" => bound # {}))

\* On a page without the navigation anchor initApp has run, a click on the
\* first tag chip has selected its tag, and a later click on a trigger went
\* unheard.
C30_Witness ==
    /\ "[data-mm-nav]" \notin anchors
    /\ phase = "ready"
    /\ bound = {"tags", "filters", "variants"}
    /\ activeTags = <<"retro">>
    /\ prevClick.kind = "tag"
    /\ emitted = <<>>
    /\ NothingTriggered

\* ------------------------------------------------------------------------
\* Delivery of the notifications (src/export.js, startEl.dispatchEvent)
\* ------------------------------------------------------------------------
\* The node each notification is dispatched on: startexport dispatches on
\* the start button, everything in app.js on window.
DispatchTarget(type) ==
    IF type \in {"export-start", "export-progress", "export-complete"}
    THEN "startEl" ELSE "window"

\* new CustomEvent(type, { detail }): bubbles is not given and is false.
Bubbles(type) == FALSE

\* The nodes an event dispatched on the target passes, outermost first.
EventPath(target) ==
    IF target = "window" THEN <<"window">>
    ELSE <<"window", "document", "optionsEl", "startEl">>

\* Whether a listener added on the node, with or without capture, is called
\* for an event of the type: at the target always, on the way down if it
\* captures, on the way up if the event bubbles.
Delivered(node, capture, type) ==
    LET target == DispatchTarget(type)
    IN \/ node = target
       \/ /\ node \in Range(EventPath(target))
          /\ capture \/ Bubbles(type)

\* ------------------------------------------------------------------------
\* Properties of the later handles, the delivery and the ticks
\* ------------------------------------------------------------------------
\* C31: on a page with the export anchors every startexport handed out by
\* initexport, by the first call or by a later one, starts a run: it
\* dispatches export-start and returns a pending promise, never a rejected
\* one.
C31_LaterHandlesStartRuns ==
    (startEl /\ optionsEl) =>
        \A i \in 1..Len(emitted) :
            emitted[i].type = "return" =>
                /\ emitted[i].detail.state = "pending"
                /\ \E j \in 1..Len(emitted) : emitted[j].type = "export-start"

\* C32: every export-start, export-progress and export-complete reaches an
\* observer that listens on window the way the observers of the other
\* notifications do, with addEventListener(type, handler).
C32_ExportNotificationsReachWindow ==
    \A i \in 1..Len(emitted) :
        emitted[i].type \in {"export-start", "export-progress", "export-complete"} =>
            Delivered("window", FALSE, emitted[i].type)

\* C33: every tick of a run raises its percent, by 15 at most.
C33_EveryTickRaisesPercent ==
    [][\A r \in 1..Len(runs) :
          (\E n \in RandomDraws : Tick(r, n)) =>
              /\ runs'[r].percent > runs[r].percent
              /\ runs'[r].percent <= runs[r].percent + 15]_vars

\* ------------------------------------------------------------------------
\* Requests that leave fields out (src/export.js, startexport)
\* ------------------------------------------------------------------------
MaxFormats == 2

\* Requests without products, without formats, with an empty list of either.
OpenRequests ==
    { [given |-> {}, products |-> <<>>, formats |-> <<>>],
      [given |-> {"products"}, products |-> <<>>, formats |-> <<>>],
      [given |-> {"formats"}, products |-> <<>>, formats |-> <<"pdf">>],
      [given |-> {"products", "formats"}, products |-> <<"mug">>, formats |-> <<>>] }

\* The caller pushes a format onto the formats array of the object it handed
\* to startexport while run r is in progress; the run's formats is that same
\* array when the request gave a non-empty one.
callerPushesFormat(r, format) ==
    /\ r \in 1..Len(runs)
    /\ runs[r].interval
    /\ "formats" \in runs[r].options.given
    /\ runs[r].options.formats # <<>>
    /\ Len(runs[r].options.formats) < MaxFormats
    /\ runs' = [runs EXCEPT ![r].options.formats = Append(@, format),
                            ![r].formats = Append(@, format)]
    /\ emitted' = <<>>
    /\ UNCHANGED <<startEl, optionsEl, initialized, apis, checkedFormats,
                   selectedProducts, panelVars, appVars, bundleVars, uiVars, timeline,
                   toasts>>

RequestInit == ExportInit /\ startEl /\ optionsEl

RequestNext ==
    \/ initexport
    \/ \E h \in 1..Len(apis), options \in OpenRequests :
          Len(runs) < MaxPanelRuns /\ startexport(h, options)
    \/ \E productId \in ClickedCards : clickProductCard(productId)
    \/ \E value \in ChangedFormats : changeFormat(value)
    \/ \E r \in 1..MaxRuns, format \in {"png"} : callerPushesFormat(r, format)
    \/ \E r \in 1..MaxRuns, n \in RandomDraws : Tick(r, n)

SpecRequest == RequestInit /\ [][RequestNext]_vars

\* C34: a run plans its files from options.products when the request has the
\* field, empty or not, and from the selected products otherwise, and from
\* options.formats when that list is not empty and from the checked format
\* inputs otherwise; the formats of the summary at completion are the
\* formats the files were planned from.
C34_SourcesOfProductsAndFormats ==
    /\ [][\A h \in 1..Len(apis), options \in OpenRequests :
             startexport(h, options) =>
                LET products == IF "products" \in options.given
                                THEN options.products ELSE selectedProducts
                    formats == IF "formats" \in options.given /\ options.formats # <<>>
                               THEN options.formats
                               ELSE SelectChecked(fileFormatCheckboxes, checkedFormats)
                IN /\ runs'[Len(runs')].files = PlanFiles(<<>>, products, formats)
                   /\ "products" \in options.given /\ options.products = <<>> =>
                         runs'[Len(runs')].files = <<>>]_vars
    /\ [](\A r \in 1..Len(runs) :
             Completed(r) =>
                /\ runs[r].completeDetail.files =
                      PlanFiles(<<>>, runs[r].planned.products,
                                runs[r].completeDetail.summary.formats)
                /\ runs[r].completeDetail.summary.formats = runs[r].planned.formats)

\* ------------------------------------------------------------------------
\* Properties of the export modal
\* ------------------------------------------------------------------------
\* The "Export Complete" entries of the timeline.
ExportCompleteEntries ==
    Cardinality({i \in 1..Len(timeline) : timeline[i].type = "export_complete"})

\* The modals whose progress has reached its end.
CompletedModals == Cardinality({m \in 1..Len(modals) : ~modals[m].busy})

\* export-complete is dispatched for a modal only by the sample that ends
\* its progress.
OneCompletePerModal ==
    [][\A m \in 1..Len(modals) :
          (\E i \in 1..Len(emitted') :
               /\ emitted'[i].type = "mm:export:complete"
               /\ emitted'[i].run = m) =>
             /\ modals[m].busy
             /\ ~modals'[m].busy]_vars

\* Every modal, closed or not, reaches the end of its progress.
EveryModalCompletes ==
    \A m \in 1..MaxTriggers :
        (Len(modals) >= m) ~> (Len(modals) >= m /\ ~modals[m].busy)

\* C35, as stated: closing the modal does not cancel the run; every
\* startExport call is followed by exactly one export-complete and exactly
\* one "Export Complete" timeline entry.
C35_ClosingNeverCancels ==
    /\ OneCompletePerModal
    /\ EveryModalCompletes
    /\ [](ExportCompleteEntries = CompletedModals)

\* C35, amended: closing the modal does not cancel the run; every
\* startExport call is followed by exactly one export-complete, and by
\* exactly one "Export Complete" timeline entry on a page that has a
\* timeline element; without the element the timeline gets no entry.
C35_ClosingNeverCancelsOnTimelinePage ==
    /\ OneCompletePerModal
    /\ EveryModalCompletes
    /\ [](ExportCompleteEntries = (IF timelineEl THEN CompletedModals ELSE 0))

\* A modal that was closed and removed while its progress was at 80 has
\* completed, with its entry on the timeline.
C35_Witness ==
    /\ Len(modals) = 1
    /\ modals[1].shown = "removed"
    /\ ~modals[1].busy
    /\ modals[1].valuenow = 100
    /\ ExportCompleteEntries = 1
    /\ \E i \in 1..Len(emitted) : emitted[i].type = "mm:export:complete"

\* ------------------------------------------------------------------------
\* Properties of the export panel
\* ------------------------------------------------------------------------
\* C36: while a run is in progress the indicator is marked loading, with
\* aria-busy true, and not complete; it is marked complete only when no run
\* is in progress.
C36_IndicatorLoadingWhileAnyRunInProgress ==
    /\ (\E r \in 1..Len(runs) : runs[r].interval) =>
          /\ indicator.loading
          /\ indicator.ariaBusy = "true"
          /\ ~indicator.complete
    /\ indicator.complete => \A r \in 1..Len(runs) : ~runs[r].interval

\* C39: when a run completes on a page with a bundle list, the list shows
\* the number of files of the run's manifest, the fileCount of the summary
\* that export-complete carries.
C39_BundleListShowsFileCount ==
    [][\A r \in 1..Len(runs) :
          (/\ bundleListEl
           /\ runs[r].completes = 0
           /\ runs'[r].completes >= 1) =>
             /\ bundleList' =
                   <<BundleItemText(Num(runs'[r].completeDetail.summary.fileCount))>>
             /\ runs'[r].completeDetail.summary.fileCount =
                   Len(runs'[r].completeDetail.files)]_vars

\* The selections agree with the display: a tag is in activeTags exactly
\* when a chip that carries it is displayed as selected, and a filter is in
\* activeFilters exactly when a button that carries it is.
SelectionMatchesDisplay ==
    /\ \A tag \in Range(TagChips) :
          (tag \in Range(activeTags))
             <=> (\E i \in 1..Len(TagChips) : TagChips[i] = tag /\ chipSelected[i])
    /\ \A filter \in Range(FilterButtons) :
          (filter \in Range(activeFilters))
             <=> (\E i \in 1..Len(FilterButtons) :
                     FilterButtons[i] = filter /\ filterSelected[i])

\* C37: after every click on a tag chip or a filter button the selections
\* agree with the display, also when several chips carry the same tag.
C37_SelectionMatchesDisplayAfterClicks ==
    [][SelectionMatchesDisplay']_vars

\* ------------------------------------------------------------------------
\* Properties of the shared namespace
\* ------------------------------------------------------------------------
\* C38: whenever an export modal shows its Download button,
\* window.MockaMint.downloadExport is defined, and once export.js has run
\* window.MockaMint.initexport is defined, whatever the order in which the
\* three scripts run and initialise.
C38_NamespaceKeepsItsFunctions ==
    /\ (\E m \in 1..Len(modals) : modals[m].footer = "download") =>
          "downloadExport" \in namespace.props
    /\ "export" \in loaded => "initexport" \in namespace.props

====
